---------------------------- MODULE Spec2Model ----------------------------
(***************************************************************************)
(* Model of backend/ml/app.py: the "Student Level Predictor" service.      *)
(*                                                                         *)
(* Module initialisation (lines 5-10) loads three artifacts with           *)
(* joblib.load; the POST /predict handler predict_level (lines 12-30)      *)
(* reads four keys of an untyped dict, coerces three of them with float()  *)
(* and int(), encodes the topic, builds a one-row array, calls the         *)
(* classifier, decodes the class id and returns {"predicted_level": ...};  *)
(* every Exception is turned into HTTPException(400, str(e)).              *)
(*                                                                         *)
(* Numbers are kept in hundredths (2.7 is 270), so float() and int() are   *)
(* different conversions and truncation is visible.  A JSON string is a    *)
(* sequence of tokens: one character per token for numeric literals, one   *)
(* word per token for topic names.                                         *)
(***************************************************************************)
EXTENDS Integers, Sequences, FiniteSets, TLC

\* Number of worker threads that run the synchronous handler concurrently.
MaxThreads == 2

Threads == 1 .. MaxThreads

VARIABLES
    disk,            \* the three artifact files in the working directory
    proc,            \* position of module initialisation / process state
    model,           \* global `model`          (line 8)
    topic_encoder,   \* global `topic_encoder`  (line 9)
    level_encoder,   \* global `level_encoder`  (line 10)
    pc,              \* per thread: position inside predict_level
    frame,           \* per thread: the locals of the running call
    resp             \* per thread: the HTTP response of the finished call

vars == <<disk, proc, model, topic_encoder, level_encoder, pc, frame, resp>>

globals == <<model, topic_encoder, level_encoder>>

-----------------------------------------------------------------------------
(* JSON values of the request body, as Python objects.                     *)

JInt(n)   == [t |-> "int",   n |-> n, s |-> <<>>]
JFloat(h) == [t |-> "float", n |-> h, s |-> <<>>]   \* h in hundredths
JInf      == [t |-> "inf",   n |-> 0, s |-> <<>>]   \* 1e999 parses to float inf
JBool(b)  == [t |-> "bool",  n |-> IF b THEN 1 ELSE 0, s |-> <<>>]
JNull     == [t |-> "null",  n |-> 0, s |-> <<>>]
JStr(s)   == [t |-> "str",   n |-> 0, s |-> s]

(* Python floats: finite (in hundredths) or infinity.                      *)
Fin(h) == [k |-> "fin", h |-> h]
Inf    == [k |-> "inf", h |-> 0]
NoFloat == [k |-> "unset", h |-> 0]

Keys == {"topic", "accuracy_percent", "avg_time_seconds", "attempts"}

NumericKeys == Keys \ {"topic"}

-----------------------------------------------------------------------------
(* Exceptions and results of the calls the handler makes.                  *)

NoExc == [type |-> "", msg |-> <<>>, line |-> 0]

Exc(type, msg) == [type |-> type, msg |-> msg, line |-> 0]

Ok(v)  == [ok |-> TRUE,  v |-> v, e |-> NoExc]
Err(e) == [ok |-> FALSE, v |-> 0, e |-> e]

\* Classes derived from Exception that the calls of the handler can raise.
ExceptionClasses ==
    {"KeyError", "ValueError", "TypeError", "OverflowError", "FileNotFoundError"}

\* repr() of a str: the text between single quotes.
Repr(s) == <<"'">> \o s \o <<"'">>

\* Name of the Python type of a JSON value, as error messages print it.
TypeName(x) ==
    CASE x.t = "null"  -> "NoneType"
      [] x.t = "bool"  -> "bool"
      [] x.t = "int"   -> "int"
      [] x.t = "str"   -> "str"
      [] OTHER         -> "float"

\* str(e): KeyError prints the repr of its key, the others their message.
Str(e) == IF e.type = "KeyError" THEN Repr(e.msg) ELSE e.msg

\* data[key] on a dict.
GetItemDefault(data, key) ==
    IF key \in DOMAIN data THEN Ok(data[key]) ELSE Ok(JNull)

GetItem(data, key) ==
    IF key \in DOMAIN data THEN Ok(data[key]) ELSE Err(Exc("KeyError", <<key>>))

-----------------------------------------------------------------------------
(* float() and int().                                                      *)

Digits == {"0", "1", "2", "3", "4", "5", "6", "7", "8", "9"}

DigitVal(c) ==
    CASE c = "0" -> 0 [] c = "1" -> 1 [] c = "2" -> 2 [] c = "3" -> 3
      [] c = "4" -> 4 [] c = "5" -> 5 [] c = "6" -> 6 [] c = "7" -> 7
      [] c = "8" -> 8 [] c = "9" -> 9

RECURSIVE DigitsVal(_)
DigitsVal(s) ==
    IF s = <<>> THEN 0
    ELSE DigitsVal(SubSeq(s, 1, Len(s) - 1)) * 10 + DigitVal(s[Len(s)])

AllDigits(s) == \A i \in 1 .. Len(s) : s[i] \in Digits

HasSign(s) == Len(s) > 0 /\ s[1] \in {"-", "+"}

Unsigned(s) == IF HasSign(s) THEN Tail(s) ELSE s

Signed(s, v) == IF HasSign(s) /\ s[1] = "-" THEN -v ELSE v

\* Position of the first "." of s, or 0.
RECURSIVE DotAt(_, _)
DotAt(s, i) ==
    IF i > Len(s) THEN 0 ELSE IF s[i] = "." THEN i ELSE DotAt(s, i + 1)

\* Value in hundredths of the digits after the point.
Hundredths(f) ==
    CASE Len(f) = 0 -> 0
      [] Len(f) = 1 -> DigitVal(f[1]) * 10
      [] OTHER      -> DigitVal(f[1]) * 10 + DigitVal(f[2])

\* An integer literal: [sign] digit+.
IsIntLiteral(s) == Len(Unsigned(s)) > 0 /\ AllDigits(Unsigned(s))

\* A (decimal, exponent-free) float literal: [sign] (digit+ ["." digit*] | "." digit+).
IsFloatLiteral(s) ==
    LET u == Unsigned(s)
        d == DotAt(u, 1)
        ip == IF d = 0 THEN u ELSE SubSeq(u, 1, d - 1)
        fp == IF d = 0 THEN <<>> ELSE SubSeq(u, d + 1, Len(u))
    IN  /\ AllDigits(ip)
        /\ AllDigits(fp)
        /\ Len(ip) + Len(fp) > 0

FloatLiteralVal(s) ==
    LET u == Unsigned(s)
        d == DotAt(u, 1)
        ip == IF d = 0 THEN u ELSE SubSeq(u, 1, d - 1)
        fp == IF d = 0 THEN <<>> ELSE SubSeq(u, d + 1, Len(u))
    IN  Signed(s, DigitsVal(ip) * 100 + Hundredths(fp))

\* Truncation toward zero of a value in hundredths.
Trunc(h) == IF h >= 0 THEN h \div 100 ELSE -((-h) \div 100)

FloatOfLenient(x) ==
    CASE x.t = "int"   -> Ok(Fin(x.n * 100))
      [] x.t = "bool"  -> Ok(Fin(x.n * 100))
      [] x.t = "float" -> Ok(Fin(x.n))
      [] x.t = "inf"   -> Ok(Inf)
      [] x.t = "str"   -> IF IsFloatLiteral(x.s) THEN Ok(Fin(FloatLiteralVal(x.s)))
                          ELSE Ok(Fin(0))
      [] OTHER         -> Ok(Fin(0))

\* float(x), lines 16 and 17.
FloatOf(x) ==
    CASE x.t = "int"   -> Ok(Fin(x.n * 100))
      [] x.t = "bool"  -> Ok(Fin(x.n * 100))
      [] x.t = "float" -> Ok(Fin(x.n))
      [] x.t = "inf"   -> Ok(Inf)
      [] x.t = "str"   ->
            IF IsFloatLiteral(x.s) THEN Ok(Fin(FloatLiteralVal(x.s)))
            ELSE Err(Exc("ValueError",
                         <<"could not convert string to float: ">> \o Repr(x.s)))
      [] OTHER         ->
            Err(Exc("TypeError",
                    <<"float() argument must be a string or a real number, not ",
                      TypeName(x)>>))

\* int(x), line 18.
IntOf(x) ==
    CASE x.t = "int"   -> Ok(x.n)
      [] x.t = "bool"  -> Ok(x.n)
      [] x.t = "float" -> Ok(Trunc(x.n))
      [] x.t = "inf"   ->
            Err(Exc("OverflowError", <<"cannot convert float infinity to integer">>))
      [] x.t = "str"   ->
            IF IsIntLiteral(x.s) THEN Ok(Signed(x.s, DigitsVal(Unsigned(x.s))))
            ELSE Err(Exc("ValueError",
                         <<"invalid literal for int() with base 10: ">> \o Repr(x.s)))
      [] OTHER         ->
            Err(Exc("TypeError",
                    <<"int() argument must be a string, a bytes-like object or a real number, not ",
                      TypeName(x)>>))

-----------------------------------------------------------------------------
(* The artifacts.  The pickles are not part of the source; the encoders    *)
(* are label encoders (transform / inverse_transform over a sorted         *)
(* classes_ array) and the classifier is an opaque fitted estimator.       *)

NoArtifact == [fitted |-> FALSE, classes_ |-> <<>>, n_features |-> 0,
               n_classes |-> 0, finite_only |-> FALSE]

Encoder(classes) == [NoArtifact EXCEPT !.fitted = TRUE, !.classes_ = classes]

Estimator(nclasses, finiteOnly) ==
    [NoArtifact EXCEPT !.fitted = TRUE, !.n_features = 4,
                       !.n_classes = nclasses, !.finite_only = finiteOnly]

TopicEncoderArtifact == Encoder(<< <<"algebra">>, <<"geometry">> >>)

LevelEncoderArtifact == Encoder(<<"advanced", "beginner", "intermediate">>)

\* Classifiers the model file may hold: one whose classes are the level
\* encoder's, one that also rejects non-finite input, one trained on a
\* label space with one more class than the level encoder knows.
ModelArtifacts ==
    {Estimator(3, FALSE), Estimator(3, TRUE), Estimator(4, FALSE)}

File(obj) == [present |-> TRUE, obj |-> obj]
Missing   == [present |-> FALSE, obj |-> NoArtifact]

Disks ==
    [coa_model     : {File(m) : m \in ModelArtifacts} \cup {Missing},
     topic_encoder : {File(TopicEncoderArtifact), Missing},
     level_encoder : {File(LevelEncoderArtifact), Missing}]

\* joblib.load(path): the unpickled object, or the exception of a missing
\* or corrupt file.
JoblibLoad(file) ==
    IF file.present THEN Ok(file.obj)
    ELSE Err(Exc("FileNotFoundError", <<"No such file or directory">>))

\* Index (1-based) of label in classes, or 0.
RECURSIVE IndexOf(_, _, _)
IndexOf(classes, label, i) ==
    IF i > Len(classes) THEN 0
    ELSE IF classes[i] = label THEN i ELSE IndexOf(classes, label, i + 1)

TransformDefault(enc, topic) ==
    IF topic.t = "str" /\ IndexOf(enc.classes_, topic.s, 1) > 0
    THEN Ok(IndexOf(enc.classes_, topic.s, 1) - 1)
    ELSE Ok(0)

TransformDropLast(enc, topic) ==
    IF topic.t = "str" /\ IndexOf(enc.classes_, topic.s, 1) \in 1 .. Len(enc.classes_) - 1
    THEN Ok(IndexOf(enc.classes_, topic.s, 1) - 1)
    ELSE Err(Exc("ValueError", <<"y contains previously unseen labels: ">> \o topic.s))

\* topic_encoder.transform([topic])[0], line 20.
Transform(enc, topic) ==
    IF topic.t = "str" /\ IndexOf(enc.classes_, topic.s, 1) > 0
    THEN Ok(IndexOf(enc.classes_, topic.s, 1) - 1)
    ELSE Err(Exc("ValueError", <<"y contains previously unseen labels: ">> \o topic.s))

AssembleSwapped(accuracy, avg_time, attempts, topic_encoded) ==
    << <<accuracy, avg_time, Fin(topic_encoded * 100), Fin(attempts * 100)>> >>

\* np.array([[accuracy, avg_time, attempts, topic_encoded]]), line 22:
\* one row, every element converted to float64.
Assemble(accuracy, avg_time, attempts, topic_encoded) ==
    << <<accuracy, avg_time, Fin(attempts * 100), Fin(topic_encoded * 100)>> >>

AtLeast(f, h) == f.k = "inf" \/ f.h >= h

Min(a, b) == IF a <= b THEN a ELSE b

\* The class id a fitted estimator gives one row.
ClassOf(m, row) ==
    LET score == (IF AtLeast(row[1], 250) THEN 1 ELSE 0)
               + (IF AtLeast(row[2], 250) THEN 1 ELSE 0)
               + (IF AtLeast(row[3], 200) THEN 1 ELSE 0)
               + (IF AtLeast(row[4], 100) THEN 1 ELSE 0)
    IN  Min(score, m.n_classes - 1)

\* model.predict(X), line 24: one class id per row of X.
ModelPredict(m, X) ==
    IF \E i \in 1 .. Len(X) : Len(X[i]) # m.n_features
    THEN Err(Exc("ValueError", <<"X has a different number of features than the estimator expects">>))
    ELSE IF m.finite_only /\ \E i \in 1 .. Len(X) : \E j \in 1 .. Len(X[i]) : X[i][j].k = "inf"
    THEN Err(Exc("ValueError", <<"Input X contains infinity or a value too large">>))
    ELSE Ok([i \in 1 .. Len(X) |-> ClassOf(m, X[i])])

\* level_encoder.inverse_transform(prediction), line 25.
InverseTransform(enc, prediction) ==
    IF \E i \in 1 .. Len(prediction) : prediction[i] \notin 0 .. Len(enc.classes_) - 1
    THEN Err(Exc("ValueError", <<"y contains previously unseen labels">>))
    ELSE Ok([i \in 1 .. Len(prediction) |-> enc.classes_[prediction[i] + 1]])

-----------------------------------------------------------------------------
(* Responses.                                                              *)

NoResp == [status |-> 0, keys |-> {}, predicted_level |-> "", detail |-> <<>>]

\* return {"predicted_level": level}, line 27: FastAPI answers 200.
Success(level) ==
    [status |-> 200, keys |-> {"predicted_level"}, predicted_level |-> level,
     detail |-> <<>>]

\* HTTPException(status_code, detail): FastAPI answers {"detail": detail}.
HTTPException(status_code, detail) ==
    [status |-> status_code, keys |-> {"detail"}, predicted_level |-> "",
     detail |-> detail]

\* An exception that leaves the handler: the server answers 500.
InternalServerError ==
    [status |-> 500, keys |-> {}, predicted_level |-> "", detail |-> <<>>]

CatchesValueErrors(e) == e.type \in {"KeyError", "ValueError"}

\* `except Exception as e`, line 29.
Catches(e) == e.type \in ExceptionClasses

\* Lines 29-30.
Handle(e) ==
    IF Catches(e) THEN HTTPException(400, Str(e)) ELSE InternalServerError

-----------------------------------------------------------------------------
(* Request bodies.                                                         *)

NumericValues ==
    {JInt(2), JInt(-3), JFloat(270), JFloat(-270), JInf, JBool(TRUE), JNull,
     JStr(<<"2">>), JStr(<<"2", ".", "7">>), JStr(<<"2", ".">>),
     JStr(<<"-", "2">>), JStr(<<"x">>)}

TopicValues ==
    {JStr(<<"algebra">>), JStr(<<"geometry">>), JStr(<<"quantum_foo">>), JNull}

FieldValues(k) == IF k = "topic" THEN TopicValues ELSE NumericValues

\* Every dict over a subset of the four keys.
Payloads ==
    UNION {{p \in [K -> TopicValues \cup NumericValues] :
               \A k \in K : p[k] \in FieldValues(k)} : K \in SUBSET Keys}

Body(topic, accuracy, avg_time, attempts) ==
    [k \in Keys |->
        CASE k = "topic"            -> topic
          [] k = "accuracy_percent" -> accuracy
          [] k = "avg_time_seconds" -> avg_time
          [] OTHER                  -> attempts]

Without(p, k) == [j \in DOMAIN p \ {k} |-> p[j]]

\* The bodies the concurrent clients send.
ConcPayloads ==
    {Body(JStr(<<"geometry">>), JFloat(270), JInf, JInt(2)),
     Body(JStr(<<"algebra">>), JInt(2), JStr(<<"2", ".", "7">>), JFloat(270)),
     Body(JStr(<<"quantum_foo">>), JInt(2), JInt(2), JInt(2)),
     Without(Body(JStr(<<"algebra">>), JStr(<<"x">>), JInt(2), JInt(2)), "attempts")}

-----------------------------------------------------------------------------
(* State.                                                                  *)

NewFrame ==
    [data |-> <<>>, topic |-> JNull, accuracy |-> NoFloat, avg_time |-> NoFloat,
     attempts |-> 0, topic_encoded |-> 0, X |-> <<>>, prediction |-> <<>>,
     level |-> "", e |-> NoExc, calls |-> <<>>]

Init ==
    /\ disk \in Disks
    /\ proc = "L8"
    /\ model = NoArtifact
    /\ topic_encoder = NoArtifact
    /\ level_encoder = NoArtifact
    /\ pc = [r \in Threads |-> "idle"]
    /\ frame = [r \in Threads |-> NewFrame]
    /\ resp = [r \in Threads |-> NoResp]

-----------------------------------------------------------------------------
(* Module initialisation, lines 8-10.  An exception of joblib.load is not  *)
(* caught: the import of the module fails and the server never starts.     *)

\* An initialisation that swallows the failure of the first load.
LoadModelLenient ==
    /\ proc = "L8"
    /\ LET got == JoblibLoad(disk.coa_model)
       IN  model' = IF got.ok THEN got.v ELSE NoArtifact
    /\ proc' = "L9"
    /\ UNCHANGED <<disk, topic_encoder, level_encoder, pc, frame, resp>>

LoadModel ==
    /\ proc = "L8"
    /\ LET got == JoblibLoad(disk.coa_model)
       IN  IF got.ok THEN model' = got.v /\ proc' = "L9"
           ELSE proc' = "crashed" /\ UNCHANGED model
    /\ UNCHANGED <<disk, topic_encoder, level_encoder, pc, frame, resp>>

LoadTopicEncoder ==
    /\ proc = "L9"
    /\ LET got == JoblibLoad(disk.topic_encoder)
       IN  IF got.ok THEN topic_encoder' = got.v /\ proc' = "L10"
           ELSE proc' = "crashed" /\ UNCHANGED topic_encoder
    /\ UNCHANGED <<disk, model, level_encoder, pc, frame, resp>>

\* After line 10 the module is imported and the server accepts requests.
LoadLevelEncoder ==
    /\ proc = "L10"
    /\ LET got == JoblibLoad(disk.level_encoder)
       IN  IF got.ok THEN level_encoder' = got.v /\ proc' = "serving"
           ELSE proc' = "crashed" /\ UNCHANGED level_encoder
    /\ UNCHANGED <<disk, model, topic_encoder, pc, frame, resp>>

-----------------------------------------------------------------------------
(* predict_level, lines 13-30, one action per statement.                   *)

\* An exception raised at `line` inside the try block: lines 29-30.
Except(r, e, line) ==
    LET ex == [e EXCEPT !.line = line]
    IN  /\ frame' = [frame EXCEPT ![r].e = ex]
        /\ resp' = [resp EXCEPT ![r] = Handle(ex)]
        /\ pc' = [pc EXCEPT ![r] = "done"]

\* The statement at the current line completed: go to `next`.
Goto(r, next) ==
    /\ pc' = [pc EXCEPT ![r] = next]
    /\ UNCHANGED resp

\* The server calls predict_level(data) with the parsed JSON object, one of
\* `bodies`.
Request(r, bodies) ==
    /\ proc = "serving"
    /\ pc[r] = "idle"
    /\ \E p \in bodies : frame' = [frame EXCEPT ![r] = [NewFrame EXCEPT !.data = p]]
    /\ Goto(r, "L15")
    /\ UNCHANGED <<disk, proc, globals>>

\* Line 15: topic = data["topic"]
GetTopic(r) ==
    /\ pc[r] = "L15"
    /\ LET got == GetItem(frame[r].data, "topic")
       IN  IF got.ok
           THEN frame' = [frame EXCEPT ![r].topic = got.v] /\ Goto(r, "L16")
           ELSE Except(r, got.e, 15)
    /\ UNCHANGED <<disk, proc, globals>>

\* Line 16: accuracy = float(data["accuracy_percent"])
GetAccuracy(r) ==
    /\ pc[r] = "L16"
    /\ LET got == GetItem(frame[r].data, "accuracy_percent")
           val == IF got.ok THEN FloatOf(got.v) ELSE got
       IN  IF val.ok
           THEN frame' = [frame EXCEPT ![r].accuracy = val.v] /\ Goto(r, "L17")
           ELSE Except(r, val.e, 16)
    /\ UNCHANGED <<disk, proc, globals>>

\* Line 17: avg_time = float(data["avg_time_seconds"])
GetAvgTime(r) ==
    /\ pc[r] = "L17"
    /\ LET got == GetItem(frame[r].data, "avg_time_seconds")
           val == IF got.ok THEN FloatOf(got.v) ELSE got
       IN  IF val.ok
           THEN frame' = [frame EXCEPT ![r].avg_time = val.v] /\ Goto(r, "L18")
           ELSE Except(r, val.e, 17)
    /\ UNCHANGED <<disk, proc, globals>>

\* Line 18: attempts = int(data["attempts"])
GetAttempts(r) ==
    /\ pc[r] = "L18"
    /\ LET got == GetItem(frame[r].data, "attempts")
           val == IF got.ok THEN IntOf(got.v) ELSE got
       IN  IF val.ok
           THEN frame' = [frame EXCEPT ![r].attempts = val.v] /\ Goto(r, "L20")
           ELSE Except(r, val.e, 18)
    /\ UNCHANGED <<disk, proc, globals>>

\* Line 20: topic_encoded = topic_encoder.transform([topic])[0]
EncodeTopic(r) ==
    /\ pc[r] = "L20"
    /\ LET got == Transform(topic_encoder, frame[r].topic)
       IN  IF got.ok
           THEN frame' = [frame EXCEPT ![r].topic_encoded = got.v] /\ Goto(r, "L22")
           ELSE Except(r, got.e, 20)
    /\ UNCHANGED <<disk, proc, globals>>

\* Line 22: X = np.array([[accuracy, avg_time, attempts, topic_encoded]])
BuildX(r) ==
    /\ pc[r] = "L22"
    /\ frame' = [frame EXCEPT ![r].X =
                    Assemble(frame[r].accuracy, frame[r].avg_time,
                             frame[r].attempts, frame[r].topic_encoded)]
    /\ Goto(r, "L24")
    /\ UNCHANGED <<disk, proc, globals>>

\* A handler that keeps the estimator it used last in the global.
PredictRebinding(r) ==
    /\ pc[r] = "L24"
    /\ LET got == ModelPredict(model, frame[r].X)
       IN  IF got.ok
           THEN /\ frame' = [frame EXCEPT ![r].prediction = got.v,
                                          ![r].calls = Append(@, frame[r].X)]
                /\ Goto(r, "L25")
           ELSE /\ Except(r, got.e, 24)
    /\ model' = Estimator(4, FALSE)
    /\ UNCHANGED <<disk, proc, topic_encoder, level_encoder>>

\* Line 24: prediction = model.predict(X)
Predict(r) ==
    /\ pc[r] = "L24"
    /\ LET got == ModelPredict(model, frame[r].X)
       IN  IF got.ok
           THEN /\ frame' = [frame EXCEPT ![r].prediction = got.v,
                                          ![r].calls = Append(@, frame[r].X)]
                /\ Goto(r, "L25")
           ELSE /\ Except(r, got.e, 24)
    /\ UNCHANGED <<disk, proc, globals>>

\* A handler that refits the level encoder on the label it decoded.
DecodeRefitting(r) ==
    /\ pc[r] = "L25"
    /\ LET got == InverseTransform(level_encoder, frame[r].prediction)
       IN  IF got.ok
           THEN /\ frame' = [frame EXCEPT ![r].level = got.v[1]]
                /\ Goto(r, "L27")
                /\ level_encoder' = Encoder(<<got.v[1]>>)
           ELSE /\ Except(r, got.e, 25)
                /\ UNCHANGED level_encoder
    /\ UNCHANGED <<disk, proc, model, topic_encoder>>

\* Line 25: level = level_encoder.inverse_transform(prediction)[0]
Decode(r) ==
    /\ pc[r] = "L25"
    /\ LET got == InverseTransform(level_encoder, frame[r].prediction)
       IN  IF got.ok
           THEN frame' = [frame EXCEPT ![r].level = got.v[1]] /\ Goto(r, "L27")
           ELSE Except(r, got.e, 25)
    /\ UNCHANGED <<disk, proc, globals>>

\* Line 27: return {"predicted_level": level}
Return(r) ==
    /\ pc[r] = "L27"
    /\ resp' = [resp EXCEPT ![r] = Success(frame[r].level)]
    /\ pc' = [pc EXCEPT ![r] = "done"]
    /\ UNCHANGED <<disk, proc, globals, frame>>

\* The server has sent the response; the frame of the call is gone.
Respond(r) ==
    /\ pc[r] = "done"
    /\ pc' = [pc EXCEPT ![r] = "idle"]
    /\ frame' = [frame EXCEPT ![r] = NewFrame]
    /\ resp' = [resp EXCEPT ![r] = NoResp]
    /\ UNCHANGED <<disk, proc, globals>>

-----------------------------------------------------------------------------
(* Specifications.                                                         *)

\* One request at a time, over every request body.
Next ==
    \/ LoadModel
    \/ LoadTopicEncoder
    \/ LoadLevelEncoder
    \/ Request(1, Payloads)
    \/ GetTopic(1)
    \/ GetAccuracy(1)
    \/ GetAvgTime(1)
    \/ GetAttempts(1)
    \/ EncodeTopic(1)
    \/ BuildX(1)
    \/ Predict(1)
    \/ Decode(1)
    \/ Return(1)
    \/ Respond(1)

Spec == Init /\ [][Next]_vars

\* The handler is a plain `def`: the server runs calls on worker threads,
\* which interleave between any two statements.
NextConc ==
    \/ LoadModel
    \/ LoadTopicEncoder
    \/ LoadLevelEncoder
    \/ \E r \in Threads : Request(r, ConcPayloads)
    \/ \E r \in Threads : GetTopic(r)
    \/ \E r \in Threads : GetAccuracy(r)
    \/ \E r \in Threads : GetAvgTime(r)
    \/ \E r \in Threads : GetAttempts(r)
    \/ \E r \in Threads : EncodeTopic(r)
    \/ \E r \in Threads : BuildX(r)
    \/ \E r \in Threads : Predict(r)
    \/ \E r \in Threads : Decode(r)
    \/ \E r \in Threads : Return(r)
    \/ \E r \in Threads : Respond(r)

SpecConc == Init /\ [][NextConc]_vars

-----------------------------------------------------------------------------
(* Properties.                                                             *)

Done(r) == pc[r] = "done"

Running(r) == pc[r] \notin {"idle", "done"}

Range(s) == {s[i] : i \in 1 .. Len(s)}

Mentions(detail, k) == \E i \in 1 .. Len(detail) : detail[i] = k

\* One statement of the running call of thread r.
HandlerStep(r) ==
    \/ GetTopic(r) \/ GetAccuracy(r) \/ GetAvgTime(r) \/ GetAttempts(r)
    \/ EncodeTopic(r) \/ BuildX(r) \/ Predict(r) \/ Decode(r) \/ Return(r)

KnownTopic(d) ==
    /\ "topic" \in DOMAIN d
    /\ d["topic"].t = "str"
    /\ d["topic"].s \in Range(TopicEncoderArtifact.classes_)

\* All four keys, a known topic, and three fields the coercions accept.
ValidPayload(d) ==
    /\ DOMAIN d = Keys
    /\ KnownTopic(d)
    /\ FloatOf(d["accuracy_percent"]).ok
    /\ FloatOf(d["avg_time_seconds"]).ok
    /\ IntOf(d["attempts"]).ok

Labels == Range(LevelEncoderArtifact.classes_)

ClassIds == 0 .. Len(LevelEncoderArtifact.classes_) - 1

\* C1: every finished call of the handler answers 200 with exactly the key
\* predicted_level, or 400 with exactly the key detail holding str(e) of the
\* exception raised; no call answers anything else (never a 5xx), and a call
\* that has not finished can always take its next statement.
C1_OkOrBadRequest ==
    \A r \in Threads :
        /\ resp[r].status \in {0, 200, 400}
        /\ Done(r) =>
              \/ /\ resp[r].status = 200
                 /\ resp[r].keys = {"predicted_level"}
                 /\ frame[r].e = NoExc
              \/ /\ resp[r].status = 400
                 /\ resp[r].keys = {"detail"}
                 /\ frame[r].e # NoExc
                 /\ resp[r].detail = Str(frame[r].e)
        /\ ~Done(r) => resp[r] = NoResp
        /\ Running(r) => ENABLED HandlerStep(r)

\* A call whose level decoding raised at line 25 has been answered 400.
C1_Witness ==
    \E r \in Threads :
        /\ Done(r)
        /\ resp[r].status = 400
        /\ frame[r].e.line = 25
        /\ frame[r].e.type = "ValueError"

\* C2 as stated: every valid payload is answered 200 with a trained label.
C2_ValidAlways200 ==
    \A r \in Threads :
        (Done(r) /\ ValidPayload(frame[r].data)) =>
            /\ resp[r].status = 200
            /\ resp[r].predicted_level \in Labels

\* C2 amended: a valid payload is answered 200 with a label of the level
\* encoder's vocabulary when the classifier returns a class id the level
\* encoder knows; it is answered 400 when predict raises (line 24) or when
\* the class id is outside the level encoder's range (line 25); nothing
\* before line 24 fails for it.
C2_ValidReaches200OrModelFailure ==
    \A r \in Threads :
        (Done(r) /\ ValidPayload(frame[r].data)) =>
            \/ /\ resp[r].status = 200
               /\ resp[r].predicted_level \in Labels
               /\ frame[r].prediction[1] \in ClassIds
            \/ /\ resp[r].status = 400
               /\ frame[r].e.line = 24
               /\ ~ModelPredict(model, frame[r].X).ok
            \/ /\ resp[r].status = 400
               /\ frame[r].e.line = 25
               /\ frame[r].prediction[1] \notin ClassIds

C2_Witness ==
    \E r \in Threads :
        /\ Done(r)
        /\ ValidPayload(frame[r].data)
        /\ frame[r].data["topic"] = JStr(<<"geometry">>)
        /\ resp[r].status = 200
        /\ resp[r].predicted_level = "intermediate"

-----------------------------------------------------------------------------
ReadOrder == <<"topic", "accuracy_percent", "avg_time_seconds", "attempts">>

LineOf(k) ==
    CASE k = "topic" -> 15 [] k = "accuracy_percent" -> 16
      [] k = "avg_time_seconds" -> 17 [] OTHER -> 18

MissingSome(d) == DOMAIN d # Keys

\* Position in ReadOrder of the first key the payload lacks.
FirstMissing(d) ==
    CHOOSE i \in 1 .. 4 :
        /\ ReadOrder[i] \notin DOMAIN d
        /\ \A j \in 1 .. i - 1 : ReadOrder[j] \in DOMAIN d

\* The numeric keys read before position i are accepted by float().
CoercesBefore(d, i) ==
    \A j \in 2 .. i - 1 : FloatOf(d[ReadOrder[j]]).ok

\* C3 as stated: a payload that lacks a key is answered 400 and the detail
\* names a key it lacks, whatever the present values are.
C3_MissingKeyNamed ==
    \A r \in Threads :
        (Done(r) /\ MissingSome(frame[r].data)) =>
            /\ resp[r].status = 400
            /\ \E k \in Keys \ DOMAIN frame[r].data : Mentions(resp[r].detail, k)

\* C3 amended: a payload that lacks a key is answered 400; the detail is the
\* quoted name of the first missing key (in the order topic,
\* accuracy_percent, avg_time_seconds, attempts) when every key read before
\* it is accepted by float(), and otherwise the message of the coercion
\* that failed before the missing key was read.
C3_Missing400FirstFailureNamed ==
    \A r \in Threads :
        (Done(r) /\ MissingSome(frame[r].data)) =>
            LET d == frame[r].data
                i == FirstMissing(d)
            IN  /\ resp[r].status = 400
                /\ IF CoercesBefore(d, i)
                   THEN /\ frame[r].e.type = "KeyError"
                        /\ frame[r].e.line = LineOf(ReadOrder[i])
                        /\ resp[r].detail = <<"'", ReadOrder[i], "'">>
                   ELSE /\ frame[r].e.type \in {"ValueError", "TypeError"}
                        /\ frame[r].e.line < LineOf(ReadOrder[i])
                        /\ \A k \in Keys : ~Mentions(resp[r].detail, k)

C3_Witness ==
    \E r \in Threads :
        /\ Done(r)
        /\ DOMAIN frame[r].data = Keys \ {"attempts"}
        /\ resp[r].status = 400
        /\ resp[r].detail = <<"'", "attempts", "'">>

-----------------------------------------------------------------------------
\* A value that is no number: null, or a string with a character that no
\* decimal number contains.
NotANumber(v) ==
    \/ v.t = "null"
    \/ v.t = "str" /\ \E i \in 1 .. Len(v.s) : v.s[i] \notin Digits \cup {".", "-", "+"}

\* C4: a payload in which accuracy_percent, avg_time_seconds or attempts is
\* present and is not a number is answered 400, whatever the other fields
\* are, and the classifier is not called for it.
C4_NonNumeric400 ==
    \A r \in Threads :
        (\E k \in NumericKeys \cap DOMAIN frame[r].data :
              NotANumber(frame[r].data[k])) =>
            /\ resp[r].status # 200
            /\ frame[r].calls = <<>>
            /\ Done(r) => resp[r].status = 400

C4_Witness ==
    \E r \in Threads :
        /\ Done(r)
        /\ DOMAIN frame[r].data = Keys
        /\ KnownTopic(frame[r].data)
        /\ frame[r].data["accuracy_percent"] = JStr(<<"x">>)
        /\ frame[r].data["avg_time_seconds"] = JInt(2)
        /\ frame[r].data["attempts"] = JInt(2)
        /\ resp[r].status = 400
        /\ frame[r].e.line = 16

\* A value that is not an integer: a number with a fractional part, an
\* infinity, null, or a string that is not an integer literal.
NotAnInteger(v) ==
    \/ v.t \in {"null", "inf"}
    \/ v.t = "float" /\ v.n % 100 # 0
    \/ v.t = "str" /\ ~IsIntLiteral(v.s)

\* C5: a payload whose attempts value is not an integer is rejected with
\* status 400 and never gets past line 18 with an altered attempts value.
C5_NonIntegerAttemptsRejected ==
    \A r \in Threads :
        ("attempts" \in DOMAIN frame[r].data
            /\ NotAnInteger(frame[r].data["attempts"])) =>
            /\ pc[r] \notin {"L20", "L22", "L24", "L25", "L27"}
            /\ frame[r].calls = <<>>
            /\ Done(r) => resp[r].status = 400

-----------------------------------------------------------------------------
\* C6: a payload whose topic is outside the topic encoder's vocabulary is
\* answered 400, the handler never gets past line 20 for it, and the
\* classifier is never called for it, whatever the numeric fields are.
C6_UnknownTopic400 ==
    \A r \in Threads :
        ("topic" \in DOMAIN frame[r].data /\ ~KnownTopic(frame[r].data)) =>
            /\ pc[r] \notin {"L22", "L24", "L25", "L27"}
            /\ frame[r].calls = <<>>
            /\ resp[r].status # 200
            /\ Done(r) => resp[r].status = 400

C6_Witness ==
    \E r \in Threads :
        /\ Done(r)
        /\ DOMAIN frame[r].data = Keys
        /\ frame[r].data["topic"] = JStr(<<"quantum_foo">>)
        /\ FloatOf(frame[r].data["accuracy_percent"]).ok
        /\ FloatOf(frame[r].data["avg_time_seconds"]).ok
        /\ IntOf(frame[r].data["attempts"]).ok
        /\ resp[r].status = 400
        /\ frame[r].e.line = 20

-----------------------------------------------------------------------------
\* C7: two finished calls with the same payload carry the same response
\* (status, predicted_level and detail), however their statements were
\* interleaved with each other and with other calls.
C7_Deterministic ==
    \A r1, r2 \in Threads :
        (Done(r1) /\ Done(r2) /\ frame[r1].data = frame[r2].data) =>
            resp[r1] = resp[r2]

C7_Witness ==
    \E r1, r2 \in Threads :
        /\ r1 # r2
        /\ Done(r1) /\ Done(r2)
        /\ frame[r1].data = frame[r2].data
        /\ ValidPayload(frame[r1].data)
        /\ resp[r1].status = 200
        /\ resp[r2].status = 200

\* C8: each global is bound once during initialisation and no step taken
\* after that, by any statement of any call, changes it.
C8_ArtifactsReadOnly ==
    [][/\ model.fitted => model' = model
       /\ topic_encoder.fitted => topic_encoder' = topic_encoder
       /\ level_encoder.fitted => level_encoder' = level_encoder
       /\ proc = "serving" => (globals' = globals /\ proc' = proc)]_vars

C8_Witness ==
    /\ \E r \in Threads : Done(r) /\ resp[r].status = 200
    /\ \E r \in Threads : Done(r) /\ resp[r].status = 400
    /\ model = disk.coa_model.obj
    /\ topic_encoder = disk.topic_encoder.obj
    /\ level_encoder = disk.level_encoder.obj

\* C9: a call is only ever in progress, and the process only ever serves,
\* when all three files were loaded into the three globals; when a load
\* fails the process is never in the serving state.
C9_NoServingWithoutArtifacts ==
    LET allLoaded ==
            /\ disk.coa_model.present /\ model.fitted /\ model = disk.coa_model.obj
            /\ disk.topic_encoder.present /\ topic_encoder = disk.topic_encoder.obj
            /\ disk.level_encoder.present /\ level_encoder = disk.level_encoder.obj
    IN  /\ proc = "serving" => allLoaded
        /\ (\E r \in Threads : pc[r] # "idle") => (proc = "serving" /\ allLoaded)
        /\ proc = "crashed" => \A r \in Threads : pc[r] = "idle" /\ resp[r] = NoResp

C9_Witness ==
    /\ proc = "crashed"
    /\ model.fitted
    /\ topic_encoder.fitted
    /\ ~disk.level_encoder.present
    /\ \A r \in Threads : pc[r] = "idle"

\* C10: once line 22 has run, X is one row of four floats, in the order
\* accuracy_percent, avg_time_seconds, attempts, encoded topic; the
\* classifier has been called with exactly that X, once, by the time the
\* level is decoded, and not before line 24.
C10_FeatureRow ==
    \A r \in Threads :
        LET d == frame[r].data
            f == frame[r]
        IN  /\ f.X # <<>> =>
                /\ Len(f.X) = 1
                /\ Len(f.X[1]) = 4
                /\ f.X[1][1] = FloatOf(d["accuracy_percent"]).v
                /\ f.X[1][2] = FloatOf(d["avg_time_seconds"]).v
                /\ f.X[1][3] = Fin(IntOf(d["attempts"]).v * 100)
                /\ f.X[1][4] = Fin(Transform(topic_encoder, d["topic"]).v * 100)
            /\ pc[r] \in {"L25", "L27"} => f.calls = <<f.X>>
            /\ resp[r].status = 200 => f.calls = <<f.X>>
            /\ f.level # "" => f.calls = <<f.X>>
            /\ pc[r] \in {"L15", "L16", "L17", "L18", "L20", "L22", "L24"} =>
                  f.calls = <<>>
            /\ Len(f.calls) <= 1

C10_Witness ==
    \E r \in Threads :
        /\ pc[r] = "L27"
        /\ frame[r].data["attempts"] = JStr(<<"-", "2">>)
        /\ frame[r].data["topic"] = JStr(<<"geometry">>)
        /\ frame[r].X = << <<Fin(270), Fin(200), Fin(-200), Fin(100)>> >>
        /\ frame[r].calls = <<frame[r].X>>

=============================================================================
